---------------------------- MODULE Spec2Model ----------------------------
(***************************************************************************)
(* A model of geofw: the MaxMind database reader and compactor             *)
(* (geofw/src/maxmind.rs), the control plane that installs the compacted   *)
(* image into the shared maps (geofw/src/main.rs) and the XDP fast path    *)
(* that classifies packets against it (geofw-ebpf/src/main.rs).            *)
(*                                                                         *)
(* Bytes are integers 0..255.  A byte buffer is a sequence of bytes; the   *)
(* Rust index i of a buffer is element i+1 of the sequence.  A Rust panic  *)
(* (slice index out of range, unwrap of None, unreachable!, todo!,         *)
(* assert_eq!) is the value Panic.                                         *)
(***************************************************************************)
EXTENDS Integers, Sequences, FiniteSets, TLC

(***************************************************************************)
(* Program constants.                                                      *)
(***************************************************************************)
BLOCK_MARKER == 16777215

EthHdrLen == 14

Ipv4HdrLen == 20

Ipv6HdrLen == 40

MaxDescent == 128

SeparatorLen == 16

CountryNodeCount == 1

CountryRecordSize == 2

AsnNodeCount == 3

AsnRecordSize == 4

METADATA_SECTION_START == <<171, 205, 239, 77, 97, 120, 77, 105, 110, 100, 46, 99, 111, 109>>

(***************************************************************************)
(* Bounds of the model.                                                    *)
(***************************************************************************)
\* Depth of nested values (maps in maps, pointers to pointers) the decoder
\* follows before the recursion is counted as a stack overflow.
MaxDecodeDepth == 4

(***************************************************************************)
(* Byte helpers.                                                           *)
(***************************************************************************)
Byte == 0..255

\* data[i] of a Rust slice (0-based); only used where i is in range.
At(buf, i) == buf[i + 1]

\* &buf[from..to] (0-based, to exclusive); only used where in range.
Slice(buf, from, to) == [k \in 1..(to - from) |-> buf[from + k]]

\* u32::from_be_bytes([a, b, c, d])
from_be_bytes(a, b, c, d) == a * 16777216 + b * 65536 + c * 256 + d

\* val.to_be_bytes() of a u32
to_be_bytes(val) ==
    << (val \div 16777216) % 256, (val \div 65536) % 256, (val \div 256) % 256, val % 256 >>

HiNibble(b) == b \div 16

LoNibble(b) == b % 16

Panic == [ok |-> FALSE]

\* "let x = e in F(x)": e is evaluated once and F applied to its value.
Strict(e, F(_)) == CHOOSE v \in {F(x) : x \in {e}} : TRUE

(***************************************************************************)
(* The node codec of the reader (maxmind.rs).  bit = TRUE selects the      *)
(* child taken when the address bit is 0 (bytes 0..2), bit = FALSE the     *)
(* child taken when the address bit is 1.                                  *)
(***************************************************************************)
node_from_bytes(n, bit, record_size) ==
    CASE record_size = 28 ->
           IF bit THEN from_be_bytes(HiNibble(At(n, 3)), At(n, 0), At(n, 1), At(n, 2))
                  ELSE from_be_bytes(LoNibble(At(n, 3)), At(n, 4), At(n, 5), At(n, 6))
      [] record_size = 24 ->
           IF bit THEN from_be_bytes(0, At(n, 0), At(n, 1), At(n, 2))
                  ELSE from_be_bytes(0, At(n, 3), At(n, 4), At(n, 5))

\* write_over_node_bytes(n, bit, record_size, val): the node bytes after the write.
write_over_node_bytes(n, bit, record_size, val) ==
    LET v == to_be_bytes(val) IN
    CASE record_size = 28 /\ bit = 0 ->
           [n EXCEPT ![1] = v[2], ![2] = v[3], ![3] = v[4],
                     ![4] = LoNibble(n[4]) + ((v[1] * 16) % 256)]
      [] record_size = 28 /\ bit = 1 ->
           [n EXCEPT ![5] = v[2], ![6] = v[3], ![7] = v[4],
                     ![4] = HiNibble(n[4]) * 16 + LoNibble(v[1])]
      [] record_size = 24 /\ bit = 0 ->
           [n EXCEPT ![1] = v[2], ![2] = v[3], ![3] = v[4]]
      [] record_size = 24 /\ bit = 1 ->
           [n EXCEPT ![4] = v[2], ![5] = v[3], ![6] = v[4]]

\* node_size = record_size as usize * 2 / 8
NodeSize(record_size) == (record_size * 2) \div 8


(***************************************************************************)
(* The binary decoder (maxmind.rs).  A decoded value is a record           *)
(* [t |-> kind, v |-> payload]: a String's payload is its bytes, a Map's   *)
(* the sequence of <<key bytes, value>> pairs in insertion order, an       *)
(* Array's the sequence of its values; U64, U128, Double and Float keep    *)
(* the big-endian bytes of the number.  A successful read is               *)
(* [ok |-> TRUE, d |-> value, n |-> bytes consumed].                       *)
(***************************************************************************)
Ok(d, n) == [ok |-> TRUE, d |-> d, n |-> n]

\* read_data_meta(data) -> (data_type, length, read); data = &self.data[off..].
\* Panics when an indexed byte is past the end of the buffer.
read_data_meta(buf, off) ==
    LET len == Len(buf) IN
    IF off >= len THEN Panic
    ELSE LET b0 == At(buf, off)
             ext == (b0 \div 32) = 0
             lenbits == b0 % 32
             \* the highest index of data[..] the function reads
             need == IF lenbits = 31 THEN 3
                     ELSE IF lenbits = 30 THEN 2
                     ELSE IF lenbits = 29 \/ ext THEN 1 ELSE 0
         IN IF off + need >= len THEN Panic
            ELSE LET read0 == IF ext THEN 1 ELSE 0
                     \* u8 addition; wraps in a build without overflow checks
                     data_type == IF ext THEN (At(buf, off + 1) + 7) % 256 ELSE b0 \div 32
                     lr == CASE lenbits < 29 -> <<lenbits, 1>>
                             [] lenbits = 29 -> <<29 + At(buf, off + 1), 2>>
                             [] lenbits = 30 ->
                                  <<285 + At(buf, off + 1) + At(buf, off + 2), 3>>
                             [] lenbits = 31 ->
                                  <<65821 + At(buf, off + 1) + At(buf, off + 2)
                                      + At(buf, off + 3), 4>>
                 IN [ok |-> TRUE, data_type |-> data_type, length |-> lr[1],
                     read |-> read0 + lr[2]]

\* Big-endian value of a slice of at most four bytes.
RECURSIVE BeValue(_)
BeValue(s) == IF Len(s) = 0 THEN 0 ELSE BeValue(SubSeq(s, 1, Len(s) - 1)) * 256 + s[Len(s)]

\* read_u16 / read_u32 / read_i32: &self.data[offset..offset + length], then a
\* match on the slice that is unreachable!() past the type's width.
read_int(buf, kind, width, offset, length) ==
    IF offset + length > Len(buf) THEN Panic
    ELSE IF length > width THEN Panic
    ELSE [ok |-> TRUE, d |-> [t |-> kind, v |-> BeValue(Slice(buf, offset, offset + length))]]

\* read_u64 / read_u128: a fold over the slice.
read_wide(buf, kind, offset, length) ==
    IF offset + length > Len(buf) THEN Panic
    ELSE [ok |-> TRUE, d |-> [t |-> kind, v |-> Slice(buf, offset, offset + length)]]

\* read_float::<T>(d): d[0..T] of the slice that starts at the control byte.
read_float(buf, kind, off, T) ==
    IF off + T > Len(buf) THEN Panic
    ELSE [ok |-> TRUE, d |-> [t |-> kind, v |-> Slice(buf, off, off + T)]]

RECURSIVE read_data(_, _, _, _)
RECURSIVE read_map(_, _, _, _, _, _, _)
RECURSIVE read_array(_, _, _, _, _, _, _)
RECURSIVE follow_pointer(_, _, _, _)

\* The match of read_data on data_type, m = (data_type, length, read).
read_data_match(buf, dss, read_offset, m, fuel) ==
    LET scalar(r) == IF r.ok THEN Ok(r.d, m.read + m.length) ELSE Panic IN
    CASE m.data_type = 1 -> follow_pointer(buf, dss, read_offset, fuel)
      [] m.data_type = 2 ->
           IF read_offset + m.read + m.length > Len(buf) THEN Panic
           ELSE Ok([t |-> "String",
                    v |-> Slice(buf, read_offset + m.read, read_offset + m.read + m.length)],
                   m.read + m.length)
      [] m.data_type = 3 ->
           IF m.length # 8 THEN Panic
           ELSE scalar(read_float(buf, "Double", read_offset, 8))
      [] m.data_type = 5 ->
           scalar(read_int(buf, "U16", 2, read_offset + m.read, m.length))
      [] m.data_type = 6 ->
           scalar(read_int(buf, "U32", 4, read_offset + m.read, m.length))
      [] m.data_type = 7 -> read_map(buf, dss, read_offset, m.read, m.length, <<>>, fuel)
      [] m.data_type = 8 ->
           scalar(read_int(buf, "I32", 4, read_offset + m.read, m.length))
      [] m.data_type = 9 -> scalar(read_wide(buf, "U64", read_offset + m.read, m.length))
      [] m.data_type = 10 -> scalar(read_wide(buf, "U128", read_offset + m.read, m.length))
      [] m.data_type = 11 -> read_array(buf, dss, read_offset, m.read, m.length, <<>>, fuel)
      [] m.data_type = 13 -> Ok([t |-> "End", v |-> 0], read_offset + m.read)
      [] m.data_type = 14 -> Ok([t |-> "Boolean", v |-> (m.length = 1)], m.read)
      [] m.data_type = 15 ->
           IF m.length # 4 THEN Panic
           ELSE scalar(read_float(buf, "Float", read_offset, 4))
      \* 4 and 12 are todo!(), every other tag is unreachable!()
      [] OTHER -> Panic

\* read_data(read_offset) on the buffer buf of a database whose data section
\* starts at dss.  fuel bounds the nesting depth.
read_data(buf, dss, read_offset, fuel) ==
    IF fuel = 0 \/ read_offset > Len(buf) THEN Panic
    ELSE Strict(read_data_meta(buf, read_offset),
                LAMBDA m : IF m.ok THEN read_data_match(buf, dss, read_offset, m, fuel)
                                   ELSE Panic)

\* read_map(offset, read, length): length key/value pairs; a key that is not
\* a String is unreachable!().  map.insert replaces an earlier equal key.
read_map(buf, dss, offset, read, length, acc, fuel) ==
    IF length = 0 THEN Ok([t |-> "Map", v |-> acc], read)
    ELSE Strict(read_data(buf, dss, offset + read, fuel - 1), LAMBDA k :
           IF ~k.ok THEN Panic
           ELSE Strict(read_data(buf, dss, offset + read + k.n, fuel - 1), LAMBDA val :
                  IF ~val.ok THEN Panic
                  ELSE IF k.d.t # "String" THEN Panic
                  ELSE Strict(<<read + k.n + val.n,
                                Append(SelectSeq(acc, LAMBDA e : e[1] # k.d.v),
                                       <<k.d.v, val.d>>)>>,
                              LAMBDA a : read_map(buf, dss, offset, a[1], length - 1,
                                                  a[2], fuel))))

read_array(buf, dss, offset, read, length, acc, fuel) ==
    IF length = 0 THEN Ok([t |-> "Array", v |-> acc], read)
    ELSE Strict(read_data(buf, dss, offset + read, fuel - 1), LAMBDA val :
           IF ~val.ok THEN Panic
           ELSE Strict(<<read + val.n, Append(acc, val.d)>>,
                       LAMBDA a : read_array(buf, dss, offset, a[1], length - 1,
                                             a[2], fuel)))

\* The target of the pointer at offset, relative to the data section.
PointerValue(buf, offset, s, v) ==
    CASE s = 0 -> from_be_bytes(0, 0, v, At(buf, offset + 1))
      [] s = 1 -> from_be_bytes(0, v, At(buf, offset + 1), At(buf, offset + 2)) + 2048
      [] s = 2 -> from_be_bytes(v, At(buf, offset + 1), At(buf, offset + 2),
                                At(buf, offset + 3)) + 526336
      [] s = 3 -> from_be_bytes(At(buf, offset + 1), At(buf, offset + 2),
                                At(buf, offset + 3), At(buf, offset + 4))

\* follow_pointer(offset): the target is decoded at data_section_start +
\* pointer; the bytes consumed are those of the pointer.
follow_pointer(buf, dss, offset, fuel) ==
    Strict((At(buf, offset) \div 8) % 4, LAMBDA s :
      IF offset + s + 1 >= Len(buf) THEN Panic
      ELSE Strict(dss + PointerValue(buf, offset, s, At(buf, offset) % 8), LAMBDA target :
             Strict(read_data(buf, dss, target, fuel - 1), LAMBDA r :
               IF r.ok THEN Ok(r.d, s + 1 + 1) ELSE Panic)))

\* FxHashMap::get on a decoded map: [some |-> FALSE] or [some |-> TRUE, d |-> value].
MapGetKey(map, key) ==
    LET hits == SelectSeq(map, LAMBDA e : e[1] = key) IN
    IF Len(hits) = 0 THEN [some |-> FALSE] ELSE [some |-> TRUE, d |-> hits[1][2]]

(***************************************************************************)
(* The database (maxmind.rs): MaxmindDB::new, lookup and consume.          *)
(***************************************************************************)
\* data.windows(14).rev().position(|x| x == METADATA_SECTION_START): the
\* number of windows after the last occurrence of the marker, or -1 (None).
RECURSIVE RevPosition(_, _)
RevPosition(data, p) ==
    LET start == Len(data) - Len(METADATA_SECTION_START) - p IN
    IF start < 0 THEN -1
    ELSE IF Slice(data, start, start + Len(METADATA_SECTION_START)) = METADATA_SECTION_START
         THEN p
         ELSE RevPosition(data, p + 1)

\* The ASCII bytes of the keys the program looks up.
KeyRecordSize == <<114, 101, 99, 111, 114, 100, 95, 115, 105, 122, 101>>

KeyNodeCount == <<110, 111, 100, 101, 95, 99, 111, 117, 110, 116>>

KeyCountry == <<99, 111, 117, 110, 116, 114, 121>>

KeyIsoCode == <<105, 115, 111, 95, 99, 111, 100, 101>>

KeyAsn == <<97, 117, 116, 111, 110, 111, 109, 111, 117, 115, 95, 115, 121, 115, 116, 101,
            109, 95, 110, 117, 109, 98, 101, 114>>

\* The Metadata MaxmindDB::new builds from the decoded metadata value m.
MetadataOf(m) ==
    IF m.t # "Map" THEN Panic
    ELSE Strict(<<MapGetKey(m.v, KeyRecordSize), MapGetKey(m.v, KeyNodeCount)>>, LAMBDA g :
           IF ~g[1].some THEN Panic
           ELSE IF g[1].d.t # "U16" THEN Panic
           ELSE IF ~g[2].some THEN Panic
           ELSE IF g[2].d.t # "U32" THEN Panic
           ELSE [ok |-> TRUE,
                 data_section_start |-> ((g[1].d.v * 2) \div 8) * g[2].d.v + SeparatorLen,
                 record_size |-> g[1].d.v,
                 node_count |-> g[2].d.v])

\* MaxmindDB::new(data): [ok |-> TRUE, data, metadata] or Panic.  The
\* metadata map is decoded while data_section_start is still 0.
new(data) ==
    Strict(RevPosition(data, 0), LAMBDA position :
      IF position < 0 THEN Panic
      ELSE Strict(read_data(data, 0, Len(data) - position, MaxDecodeDepth), LAMBDA m :
             IF ~m.ok THEN Panic
             ELSE Strict(MetadataOf(m.d), LAMBDA md :
                    IF ~md.ok THEN Panic
                    ELSE [ok |-> TRUE,
                          data |-> data,
                          metadata |->
                            [data_section_start |-> md.data_section_start,
                             record_size |-> md.record_size,
                             node_count |-> md.node_count]])))

\* The bits of an address, most significant first.  An address is
\* [v |-> "V4" | "V6", top |-> its leading bits]; the bits after top are 0.
AddrWidth(addr) == IF addr.v = "V4" THEN 32 ELSE 128

\* Bit i (i = 0 the least significant) of addr.to_bits() as u128.
AddrBit(addr, i) ==
    LET w == AddrWidth(addr)
        k == w - i          \* 1-based place from the top of the address
    IN IF i >= w THEN 0
       ELSE IF k <= Len(addr.top) THEN addr.top[k] ELSE 0

\* The descent of MaxmindDB::lookup: the child the while loop ends on, or Panic.
RECURSIVE lookup_walk(_, _, _, _, _)
lookup_walk(data, md, addr, node, i) ==
    IF ~(i >= 0 /\ node < md.node_count) THEN [ok |-> TRUE, node |-> node]
    ELSE IF node * NodeSize(md.record_size) + NodeSize(md.record_size) > Len(data) THEN Panic
    ELSE IF md.record_size \notin {24, 28} THEN Panic
    ELSE Strict(node_from_bytes(Slice(data, node * NodeSize(md.record_size),
                                      node * NodeSize(md.record_size)
                                          + NodeSize(md.record_size)),
                                AddrBit(addr, i) = 0, md.record_size),
                LAMBDA child : lookup_walk(data, md, addr, child, i - 1))

\* The record lookup decodes for the child the descent ended on.
lookup_record(data, md, node) ==
    IF node = md.node_count THEN [ok |-> TRUE, some |-> FALSE]
    \* node - node_count on u32: an overflow panic, or a wrapped offset far
    \* past the end of the buffer
    ELSE IF node < md.node_count THEN Panic
    ELSE Strict(read_data(data, md.data_section_start,
                          md.data_section_start + (node - md.node_count) - SeparatorLen,
                          MaxDecodeDepth),
                LAMBDA r : IF r.ok THEN [ok |-> TRUE, some |-> TRUE, d |-> r.d] ELSE Panic)

\* The node and bit index lookup starts from, and the descent from there:
\* IpAddr::V4 => (96, 31), IpAddr::V6 => (0, 127).
lookup_descent(db, addr) ==
    IF addr.v = "V4" THEN lookup_walk(db.data, db.metadata, addr, 96, 31)
                     ELSE lookup_walk(db.data, db.metadata, addr, 0, 127)

\* MaxmindDB::lookup(addr): [ok |-> TRUE, some |-> FALSE] (None),
\* [ok |-> TRUE, some |-> TRUE, d |-> record] or Panic.
lookup(db, addr) ==
    Strict(lookup_descent(db, addr),
           LAMBDA w : IF w.ok THEN lookup_record(db.data, db.metadata, w.node) ELSE Panic)

(***************************************************************************)
(* The record predicates of fetch_geoip_db (main.rs).  A configuration is  *)
(* [source_countries |-> set of ISO codes (byte strings),                  *)
(*  source_asn |-> set of numbers].                                        *)
(***************************************************************************)
\* Decimal digits of a natural number, as ASCII bytes.
RECURSIVE Decimal(_)
Decimal(n) == IF n < 10 THEN <<48 + n>> ELSE Append(Decimal(n \div 10), 48 + (n % 10))

\* Data::to_string() for the kinds whose text can be an ISO code of the
\* configuration; the other kinds (maps, arrays, floats, wide integers)
\* print text that no configured code equals.
HasCodeText(d) == d.t \in {"String", "U16", "U32", "I32"}

to_string(d) == IF d.t = "String" THEN d.v ELSE Decimal(d.v)

\* The Country closure: data.get("country") is a map whose "iso_code" is in
\* source_countries.
country_predicate(config, data) ==
    LET country == MapGetKey(data, KeyCountry) IN
    IF ~country.some THEN FALSE
    ELSE IF country.d.t # "Map" THEN FALSE
    ELSE LET iso_code == MapGetKey(country.d.v, KeyIsoCode) IN
         IF ~iso_code.some THEN FALSE
         ELSE HasCodeText(iso_code.d) /\ to_string(iso_code.d) \in config.source_countries

\* The ASN closure: data.get("autonomous_system_number") is a U32 in source_asn.
asn_predicate(config, data) ==
    LET asn == MapGetKey(data, KeyAsn) IN
    IF ~asn.some THEN FALSE
    ELSE IF asn.d.t # "U32" THEN FALSE
    ELSE asn.d.v \in config.source_asn

\* The closure fetch_geoip_db hands to consume for db_type.
predicate(db_type, config, data) ==
    IF db_type = "Country" THEN country_predicate(config, data)
                           ELSE asn_predicate(config, data)

(***************************************************************************)
(* MaxmindDB::consume (maxmind.rs): the rewrite pass and the trim.         *)
(***************************************************************************)
\* The test without its marker guard: a marked child is taken for a record.
IsRecordPointerNoMarker(child, node_count) == child > node_count

\* node != BLOCK_MARKER && node > node_count: the child points at a record.
IsRecordPointer(child, node_count) == child # BLOCK_MARKER /\ child > node_count

\* The child slot (the bit argument of write_over_node_bytes) consume marks.
MarkedSlot == 0

\* position < 128 && child < node_count: the child is pushed on the stack.
PushChild(stack, child, position, node_count) ==
    IF position < MaxDescent /\ child < node_count
    THEN Append(stack, <<child, position + 1>>)
    ELSE stack

\* data with the node_size bytes from index from replaced by the bytes nn.
WithNode(data, from, nn) ==
    [k \in 1..Len(data) |-> IF k > from /\ k <= from + Len(nn) THEN nn[k - from] ELSE data[k]]

\* The child whose record the if / else if chain picks when one is picked:
\* node_1, the right child, when it points at a record, else node_2, the left.
EvaluatedChild(node_1, node_count) == IF IsRecordPointer(node_1, node_count) THEN 2 ELSE 1

\* The body of the loop for the popped node whose bytes are n and whose
\* children are node_1 and node_2; pushed is the stack after the two pushes.
\* The buffer after the iteration and the children (1 = left, 2 = right)
\* whose record the iteration decoded and handed to should_block, or Panic.
consume_node(data, md, from, n, node_1, node_2, db_type, config) ==
    IF ~(IsRecordPointer(node_1, md.node_count) \/ IsRecordPointer(node_2, md.node_count))
    THEN [ok |-> TRUE, data |-> data, evals |-> {}]
    ELSE Strict(IF IsRecordPointer(node_1, md.node_count) THEN node_1 - md.node_count
                                                          ELSE node_2 - md.node_count,
                LAMBDA data_section_offset :
           Strict(read_data(data, md.data_section_start,
                            md.data_section_start + data_section_offset - SeparatorLen,
                            MaxDecodeDepth),
                  LAMBDA r :
             IF ~r.ok THEN Panic
             ELSE IF r.d.t # "Map" THEN Panic
             ELSE IF predicate(db_type, config, r.d.v)
                  THEN [ok |-> TRUE,
                        data |-> WithNode(data, from,
                                          write_over_node_bytes(n, MarkedSlot, md.record_size,
                                                                BLOCK_MARKER)),
                        evals |-> {EvaluatedChild(node_1, md.node_count)}]
                  ELSE [ok |-> TRUE, data |-> data,
                        evals |-> {EvaluatedChild(node_1, md.node_count)}]))

\* The while-let loop of consume on the buffer data: the buffer after the
\* stack has emptied and the <<node, child>> pairs whose records were
\* evaluated, [ok |-> TRUE, data |-> ..., evals |-> ...], or Panic.
RECURSIVE consume_loop(_, _, _, _, _)
consume_loop(data, md, stack, db_type, config) ==
    IF Len(stack) = 0 THEN [ok |-> TRUE, data |-> data, evals |-> {}]
    ELSE Strict(<<stack[Len(stack)][1], stack[Len(stack)][2],
                  stack[Len(stack)][1] * NodeSize(md.record_size)>>, LAMBDA top :
           \* top = <<node, position, node as usize * node_size>>
           IF top[3] + NodeSize(md.record_size) > Len(data) THEN Panic
           ELSE IF md.record_size \notin {24, 28} THEN Panic
           ELSE Strict(Slice(data, top[3], top[3] + NodeSize(md.record_size)), LAMBDA n :
             Strict(<<node_from_bytes(n, FALSE, md.record_size),
                      node_from_bytes(n, TRUE, md.record_size)>>, LAMBDA c :
               \* c = <<node_1, node_2>>
               Strict(<<PushChild(PushChild(SubSeq(stack, 1, Len(stack) - 1),
                                            c[1], top[2], md.node_count),
                                  c[2], top[2], md.node_count),
                        consume_node(data, md, top[3], n, c[1], c[2], db_type, config)>>,
                      LAMBDA step :
                 IF ~step[2].ok THEN Panic
                 ELSE Strict(consume_loop(step[2].data, md, step[1], db_type, config),
                             LAMBDA rest :
                        IF ~rest.ok THEN Panic
                        ELSE [rest EXCEPT !.evals =
                                rest.evals \cup {<<top[1], child>> : child \in step[2].evals}])))))

\* The bytes consume keeps: self.data[..data_section_start].
Trim(data, md) == Slice(data, 0, md.data_section_start)

\* consume(should_block): the ProcessedDb
\* [ok |-> TRUE, node_count, record_size, db], or Panic.
consume(db, db_type, config) ==
    Strict(consume_loop(db.data, db.metadata, << <<0, 0>> >>, db_type, config), LAMBDA r :
      IF ~r.ok THEN Panic
      ELSE IF db.metadata.data_section_start > Len(r.data) THEN Panic
      ELSE [ok |-> TRUE,
            node_count |-> db.metadata.node_count,
            record_size |-> db.metadata.record_size,
            db |-> Trim(r.data, db.metadata)])

\* The <<node, child>> pairs whose records one run of consume evaluates.
consume_evals(db, db_type, config) ==
    Strict(consume_loop(db.data, db.metadata, << <<0, 0>> >>, db_type, config), LAMBDA r :
      IF r.ok THEN r.evals ELSE {})

(***************************************************************************)
(* The fast path (geofw-ebpf/src/main.rs).  A shared array map is the      *)
(* sequence of its max_entries bytes; the parameter table is a function    *)
(* from the keys 1..4 to a u32, or to NoEntry where the key is absent.     *)
(***************************************************************************)
NoEntry == -1

ParamKeys == {CountryNodeCount, CountryRecordSize, AsnNodeCount, AsnRecordSize}

DbKinds == {"Asn", "Country"}

RecordSizeKey(db_name) == IF db_name = "Country" THEN CountryRecordSize ELSE AsnRecordSize

NodeCountKey(db_name) == IF db_name = "Country" THEN CountryNodeCount ELSE AsnNodeCount

\* Array::get(index): None past max_entries.
ArrayGet(map, index) ==
    IF index < Len(map) THEN [some |-> TRUE, v |-> map[index + 1]] ELSE [some |-> FALSE]

\* node_from_bytes(n: [u8; 8], bit, record_size as u16) of the fast path.
ebpf_node_from_bytes(n, bit, record_size) ==
    LET rs == record_size % 65536 IN
    CASE rs = 28 ->
           IF bit = 0 THEN from_be_bytes(HiNibble(At(n, 3)), At(n, 0), At(n, 1), At(n, 2))
                      ELSE from_be_bytes(LoNibble(At(n, 3)), At(n, 4), At(n, 5), At(n, 6))
      [] rs = 24 ->
           IF bit = 0 THEN from_be_bytes(0, At(n, 0), At(n, 1), At(n, 2))
                      ELSE from_be_bytes(0, At(n, 3), At(n, 4), At(n, 5))
      [] OTHER -> 0

\* The bit the descent examines in iteration i: bit 127 of ip after i shifts.
DescentBit(addr, i) == AddrBit(addr, 127 - i)

\* slice.iter_mut().enumerate().take(node_size): the bytes one iteration reads.
BytesPerNode(record_size) ==
    IF NodeSize(record_size) < 8 THEN NodeSize(record_size) ELSE 8

ZeroSlice == <<0, 0, 0, 0, 0, 0, 0, 0>>

\* The loop without its bound on i.
LoopContinuesUnbounded(i, node, node_count) == node < node_count

\* while i < 128 && node < node_count
LoopContinues(i, node, node_count) == i < MaxDescent /\ node < node_count

\* The for loop over one node: the slice, or absent when a byte is missing.
RECURSIVE read_node(_, _, _, _, _)
read_node(map, node, record_size, k, slice) ==
    IF k >= BytesPerNode(record_size) THEN [some |-> TRUE, slice |-> slice]
    ELSE Strict(ArrayGet(map, node * NodeSize(record_size) + k), LAMBDA g :
           IF ~g.some THEN [some |-> FALSE]
           ELSE Strict(<<k + 1, [slice EXCEPT ![k + 1] = g.v]>>,
                       LAMBDA a : read_node(map, node, record_size, a[1], a[2])))

\* The descent loop run in one piece on a map that does not change:
\* [result |-> the bool should_block returns, iters |-> iterations run,
\*  node |-> the child the loop stopped on].
RECURSIVE descend(_, _, _, _, _, _)
descend(map, record_size, node_count, addr, node, i) ==
    IF ~LoopContinues(i, node, node_count)
    THEN [result |-> (node = BLOCK_MARKER), iters |-> i, node |-> node]
    ELSE Strict(read_node(map, node, record_size, 0, ZeroSlice), LAMBDA r :
           IF ~r.some THEN [result |-> FALSE, iters |-> i, node |-> node]
           ELSE Strict(<<ebpf_node_from_bytes(r.slice, DescentBit(addr, i), record_size),
                         i + 1>>,
                       LAMBDA a : descend(map, record_size, node_count, addr, a[1], a[2])))

\* should_block(ctx, db_name, map, addr) on an unchanging map and table.
should_block(params, db_name, map, addr) ==
    IF params[RecordSizeKey(db_name)] = NoEntry THEN FALSE
    ELSE IF params[NodeCountKey(db_name)] = NoEntry THEN FALSE
    ELSE descend(map, params[RecordSizeKey(db_name)], params[NodeCountKey(db_name)],
                 addr, 0, 0).result

(***************************************************************************)
(* Database files the model feeds the program: a search tree, the 16-byte  *)
(* separator, a data section of records, the metadata marker and the       *)
(* metadata map, laid out as the provider's format lays them out.          *)
(***************************************************************************)
\* Nodes of the largest search tree.
MaxNodes == 2

\* One node holding the children left and right, in the provider's layout.
EncodeNode(left, right, rs) ==
    LET l == to_be_bytes(left)
        r == to_be_bytes(right)
    IN IF rs = 24 THEN <<l[2], l[3], l[4], r[2], r[3], r[4]>>
       ELSE <<l[2], l[3], l[4], (l[1] % 16) * 16 + (r[1] % 16), r[2], r[3], r[4]>>

RECURSIVE EncodeTree(_, _)
EncodeTree(nodes, rs) ==
    IF Len(nodes) = 0 THEN <<>>
    ELSE EncodeNode(nodes[1][1], nodes[1][2], rs) \o EncodeTree(Tail(nodes), rs)

Zeros(n) == [k \in 1..n |-> 0]

CodeRU == <<82, 85>>

CodeDE == <<68, 69>>

\* {"country": {"iso_code": code}}
CountryRecord(code) ==
    <<225, 71>> \o KeyCountry \o <<225, 72>> \o KeyIsoCode \o <<66>> \o code

\* {"autonomous_system_number": hi * 256 + lo}
AsnRecord(hi, lo) == <<225, 88>> \o KeyAsn \o <<194, hi, lo>>

\* The data section of a database of each kind: two records.
DataSection(db_type) ==
    IF db_type = "Country" THEN CountryRecord(CodeRU) \o CountryRecord(CodeDE)
                           ELSE AsnRecord(48, 57) \o AsnRecord(0, 99)

\* The data-section offsets of the two records.
RecordOffsets(db_type) ==
    IF db_type = "Country" THEN {0, Len(CountryRecord(CodeRU))}
                           ELSE {0, Len(AsnRecord(48, 57))}

\* The child value that points at the record at data-section offset off.
RecordPointer(node_count, off) == node_count + SeparatorLen + off

\* {"record_size": rs, "node_count": nc}
MetadataMap(rs, nc) ==
    <<226, 75>> \o KeyRecordSize \o <<161, rs>> \o <<74>> \o KeyNodeCount \o <<193, nc>>

MakeFile(nodes, rs, db_type) ==
    EncodeTree(nodes, rs) \o Zeros(SeparatorLen) \o DataSection(db_type)
        \o METADATA_SECTION_START \o MetadataMap(rs, Len(nodes))

\* The values a child of node k (0-based) of a tree of nc nodes may hold: a
\* node further down, no data, a record, or the marker value.
ChildValues(k, nc, db_type) ==
    {j \in 0..(nc - 1) : j > k} \cup {nc}
        \cup {RecordPointer(nc, off) : off \in RecordOffsets(db_type)}
        \cup {BLOCK_MARKER}

\* The trees of nc nodes: one pair of children per node.
RECURSIVE TreesFrom(_, _, _)
TreesFrom(k, nc, db_type) ==
    IF k = nc THEN {<<>>}
    ELSE {<< <<l, r>> >> \o rest :
             l \in ChildValues(k, nc, db_type),
             r \in ChildValues(k, nc, db_type),
             rest \in TreesFrom(k + 1, nc, db_type)}

\* The number of child slots of the tree that hold the node index j.
References(nodes, j) ==
    Cardinality({c \in (1..Len(nodes)) \X {1, 2} : nodes[c[1]][c[2]] = j})

\* The provider's trees: every node but the root is the child of exactly one node.
Trees(db_type) ==
    UNION {{nodes \in TreesFrom(0, nc, db_type) :
               \A j \in 1..(nc - 1) : References(nodes, j) = 1}
           : nc \in 1..MaxNodes}

\* The operator's configuration: one of the two records of each kind is blocked.
Configs == {[source_countries |-> {CodeRU}, source_asn |-> {12345}]}

\* Addresses: every choice of the leading MaxNodes bits, the rest zero.
RECURSIVE BitSeqs(_)
BitSeqs(n) ==
    IF n = 0 THEN {<<>>} ELSE {<<b>> \o t : b \in {0, 1}, t \in BitSeqs(n - 1)}

Addrs ==
    {[v |-> "V6", top |-> t] : t \in BitSeqs(MaxNodes)}
        \cup {[v |-> "V4", top |-> t] : t \in BitSeqs(1)}

(***************************************************************************)
(* State.                                                                  *)
(*   dbs     the reader/compactor run on one database file (SpecDb)        *)
(*   image   the shared array maps BLOCKED_ASN and BLOCKED_COUNTRY         *)
(*   params  the shared hash map PARAMETERS                                *)
(*   cp      the control plane: the select loop of main and                *)
(*           update_geoip_map                                              *)
(*   fp      the fast path: one run of the XDP program on one packet       *)
(*   hist    history kept for the properties: what the maps held when the  *)
(*           refresh in progress started, which refresh wrote what         *)
(***************************************************************************)
VARIABLES dbs, image, params, cp, fp, hist

vars == <<dbs, image, params, cp, fp, hist>>

(***************************************************************************)
(* SpecDb: the reader and the compactor on one database file.              *)
(***************************************************************************)
\* The parameter table update_geoip_map writes for a ProcessedDb.
ParamsOf(db_type, out) ==
    [k \in ParamKeys |->
        IF k = NodeCountKey(db_type) THEN out.node_count
        ELSE IF k = RecordSizeKey(db_type) THEN out.record_size
        ELSE NoEntry]

\* The outcome of MaxmindDB::lookup followed by the record predicate.
FullVerdict(file, db_type, config, addr) ==
    Strict(new(file), LAMBDA db :
      IF ~db.ok THEN "panic"
      ELSE Strict(lookup(db, addr), LAMBDA r :
             IF ~r.ok THEN "panic"
             ELSE IF ~r.some THEN "none"
             ELSE IF r.d.t = "Map" /\ predicate(db_type, config, r.d.v) THEN "block"
             ELSE "pass"))

\* from_file(path) then consume(closure), as fetch_geoip_db runs them.
Compacted(file, db_type, config) ==
    Strict(new(file), LAMBDA db : IF db.ok THEN consume(db, db_type, config) ELSE Panic)

\* The children whose records that run of consume evaluated.
Evaluated(file, db_type, config) ==
    Strict(new(file), LAMBDA db : IF db.ok THEN consume_evals(db, db_type, config) ELSE {})

\* The file whose tree is the compacted image out and whose data section and
\* metadata are those of file.
Recompactable(file, out) == out.db \o SubSeq(file, Len(out.db) + 1, Len(file))

\* No child: the descent has not run, or it panicked.
NoNode == -1

\* The child the while loop of MaxmindDB::lookup ends on.
FullTerminal(file, addr) ==
    Strict(new(file), LAMBDA db :
      IF ~db.ok THEN NoNode
      ELSE Strict(lookup_descent(db, addr), LAMBDA w : IF w.ok THEN w.node ELSE NoNode))

\* The child the while loop of should_block ends on.
FastTerminal(table, db_name, map, addr) ==
    descend(map, table[RecordSizeKey(db_name)], table[NodeCountKey(db_name)], addr, 0, 0).node

DbIdle ==
    [phase |-> "none", nodes |-> <<>>, file |-> <<>>, db_type |-> "Country",
     config |-> [source_countries |-> {}, source_asn |-> {}],
     out |-> Panic, out2 |-> Panic, evals |-> {},
     addr |-> [v |-> "V6", top |-> <<>>], full |-> "unset", fast |-> "unset",
     fullnode |-> NoNode, fastnode |-> NoNode]

Quiet ==
    /\ image = [k \in DbKinds |-> <<>>]
    /\ params = [k \in ParamKeys |-> NoEntry]
    /\ cp = [pc |-> "off"]
    /\ fp = [pc |-> "off"]
    /\ hist = [on |-> FALSE]

InitDb ==
    /\ \E db_type \in DbKinds, rs \in {24, 28}, config \in Configs :
         \E nodes \in Trees(db_type) :
            dbs = [DbIdle EXCEPT !.phase = "loaded",
                                 !.nodes = nodes,
                                 !.file = MakeFile(nodes, rs, db_type),
                                 !.db_type = db_type,
                                 !.config = config]
    /\ Quiet

\* fetch_geoip_db: parse the file and compact it.
Compact ==
    /\ dbs.phase = "loaded"
    /\ dbs' = [dbs EXCEPT !.phase = "compacted",
                          !.out = Compacted(dbs.file, dbs.db_type, dbs.config),
                          !.evals = Evaluated(dbs.file, dbs.db_type, dbs.config)]
    /\ UNCHANGED <<image, params, cp, fp, hist>>

\* The compactor run again, with the same predicate, on the tree it produced.
Recompact ==
    /\ dbs.phase = "compacted"
    /\ dbs.out.ok
    /\ dbs' = [dbs EXCEPT !.phase = "recompacted",
                          !.out2 = Compacted(Recompactable(dbs.file, dbs.out),
                                             dbs.db_type, dbs.config),
                          !.addr = DbIdle.addr, !.full = "unset", !.fast = "unset",
                          !.fullnode = NoNode, !.fastnode = NoNode]
    /\ UNCHANGED <<image, params, cp, fp, hist>>

\* MaxmindDB::lookup of an address in the full database.
Lookup(addr) ==
    /\ dbs.phase = "compacted"
    /\ dbs.out.ok
    /\ dbs.full = "unset"
    /\ dbs' = [dbs EXCEPT !.addr = addr,
                          !.full = FullVerdict(dbs.file, dbs.db_type, dbs.config, addr),
                          !.fullnode = FullTerminal(dbs.file, addr),
                          !.fast = "unset", !.fastnode = NoNode]
    /\ UNCHANGED <<image, params, cp, fp, hist>>

\* should_block of the fast path for the same address, on the compacted
\* image installed with its parameters.
FastLookup ==
    /\ dbs.full # "unset"
    /\ dbs.fast = "unset"
    /\ dbs' = [dbs EXCEPT !.fast =
                 IF should_block(ParamsOf(dbs.db_type, dbs.out), dbs.db_type,
                                 dbs.out.db, dbs.addr)
                 THEN "block" ELSE "pass",
                          !.fastnode =
                 FastTerminal(ParamsOf(dbs.db_type, dbs.out), dbs.db_type,
                              dbs.out.db, dbs.addr)]
    /\ UNCHANGED <<image, params, cp, fp, hist>>

NextDb ==
    \/ Compact
    \/ Recompact
    \/ \E addr \in Addrs : Lookup(addr)
    \/ FastLookup

SpecDb == InitDb /\ [][NextDb]_vars

(***************************************************************************)
(* Properties of the reader and the compactor.                             *)
(***************************************************************************)
\* The database keeps the provider's guarantee: no child of the tree equals
\* BLOCK_MARKER.
MarkerFree == \A k \in 1..Len(dbs.nodes) : BLOCK_MARKER \notin {dbs.nodes[k][1], dbs.nodes[k][2]}

\* C1: for every address, the fast-path lookup in the compacted image
\* returns block if and only if the full-database lookup finds a record and
\* should_block of that record is true.  Stated for the databases that keep
\* the provider's guarantee and for IPv6 addresses, whose lookup starts at
\* the root in both planes.
C1_RoundTrip ==
    (dbs.fast # "unset" /\ MarkerFree /\ dbs.addr.v = "V6")
        => ((dbs.fast = "block") <=> (dbs.full = "block"))

\* C2: the byte vector the compactor emits has length exactly
\* node_count * node_size, node_size = record_size * 2 / 8.
C2_ImageLength ==
    (dbs.phase = "compacted" /\ dbs.out.ok)
        => Len(dbs.out.db) = dbs.out.node_count * NodeSize(dbs.out.record_size)

\* C10: compaction is idempotent: the compactor run with the same predicate
\* on a tree it has already rewritten changes no byte.
C10_Idempotent ==
    dbs.phase = "recompacted" => (dbs.out2.ok /\ dbs.out2.db = dbs.out.db)

\* C10 witness: a second pass over a tree in which the first pass marked a child.
C10_Witness ==
    /\ dbs.phase = "recompacted"
    /\ dbs.out2.ok
    /\ MarkerFree
    /\ dbs.out.db # SubSeq(dbs.file, 1, Len(dbs.out.db))

\* C11: if a child pointer of the uncompacted input tree already equals
\* BLOCK_MARKER, the compactor rejects the database instead of emitting an
\* image in which that child reads as blocked.
C11_MarkerRejected ==
    (dbs.phase = "compacted" /\ ~MarkerFree) => ~dbs.out.ok

\* C12: during compaction, for every node popped from the stack, each of its
\* two children that is a record pointer (> node_count and not BLOCK_MARKER)
\* has its record decoded and passed to should_block; a node whose two
\* children are both record pointers has both records evaluated.
C12_BothChildrenEvaluated ==
    (dbs.phase = "compacted" /\ dbs.out.ok /\ MarkerFree) =>
        \A k \in 1..Len(dbs.nodes) : \A c \in {1, 2} :
            IsRecordPointer(dbs.nodes[k][c], Len(dbs.nodes)) => <<k - 1, c>> \in dbs.evals

\* should_block of the record the child pointer child of the database db
\* points at.
RecordBlocked(db, child, db_type, config) ==
    Strict(lookup_record(db.data, db.metadata, child), LAMBDA r :
      r.ok /\ r.some /\ r.d.t = "Map" /\ predicate(db_type, config, r.d.v))

\* Child c (1 = left, 2 = right) of node k (1-based) of the emitted image.
OutChild(out, k, c) ==
    node_from_bytes(Slice(out.db, (k - 1) * NodeSize(out.record_size),
                          k * NodeSize(out.record_size)),
                    c = 1, out.record_size)

\* C13: compaction changes a child slot only when that slot held a record
\* pointer whose record satisfied should_block, and then sets exactly that
\* slot to BLOCK_MARKER; every slot holding an internal node index or the
\* no-data value, and the sibling slot of a rewritten child, keeps its
\* input value.
C13_Frame ==
    (dbs.phase = "compacted" /\ dbs.out.ok /\ MarkerFree) =>
        \E db \in {new(dbs.file)} :
            \A k \in 1..Len(dbs.nodes) : \A c \in {1, 2} :
                OutChild(dbs.out, k, c) =
                    IF IsRecordPointer(dbs.nodes[k][c], Len(dbs.nodes))
                          /\ RecordBlocked(db, dbs.nodes[k][c], dbs.db_type, dbs.config)
                    THEN BLOCK_MARKER
                    ELSE dbs.nodes[k][c]

\* C14: the full-database lookup and the fast-path lookup use the same IPv4
\* traversal: for every tree and every IPv4 address the descent of the fast
\* path (from node 0 over the address widened to 128 bits) ends at the same
\* terminal child as the full lookup that starts at node 96 with bit index
\* 31.  Compared on the trees compaction left as they were, where the image
\* is the tree of the file.
C14_SameIpv4Traversal ==
    (/\ dbs.fast # "unset"
     /\ dbs.addr.v = "V4"
     /\ MarkerFree
     /\ dbs.out.db = SubSeq(dbs.file, 1, Len(dbs.out.db)))
        => dbs.fastnode = dbs.fullnode

(***************************************************************************)
(* The XDP program on one packet, step by step.  Every access to a shared  *)
(* map (PARAMETERS.get, map.get of one image byte) is a step of its own,   *)
(* so that the control plane's writes interleave with them.                *)
(***************************************************************************)
\* ptr_at::<T>(ctx, offset) is Some: not (start + offset + len > end).
ptr_at(len, offset, size) == ~(offset + size > len)

\* mem::size_of of the IP header the ether_type selects.
IpHdrLen(et) == IF et = "Ipv4" THEN Ipv4HdrLen ELSE Ipv6HdrLen

\* try_geofw and the head of filter_ip_packet / filter_ipv6_packet: the
\* Result returned before any lookup, or "lookup" when should_block is called.
try_geofw(pkt) ==
    IF ~ptr_at(pkt.len, 0, EthHdrLen) THEN [ok |-> FALSE, v |-> "XDP_PASS"]
    ELSE IF pkt.et \notin {"Ipv4", "Ipv6"} THEN [ok |-> TRUE, v |-> "XDP_PASS"]
    ELSE IF ~ptr_at(pkt.len, EthHdrLen, IpHdrLen(pkt.et))
         THEN [ok |-> FALSE, v |-> "XDP_PASS"]
    ELSE [ok |-> TRUE, v |-> "lookup"]

\* geofw: Ok(ret) => ret, Err(_) => XDP_ABORTED.
geofw(r) == IF r.ok THEN r.v ELSE "XDP_ABORTED"

\* The || of the two should_block calls, taken the other way round.
CombineBoth(asn, country) == asn /\ country

\* should_block(Asn, ..) || should_block(Country, ..)
Combine(asn, country) == asn \/ country

\* A missing parameter entry answered with block.
BlockWhenMissing == TRUE

\* let Some(&x) = PARAMETERS.get(..) else { return false };
ResultWhenMissing == FALSE

\* An absent image byte answered with block.
BlockWhenAbsent == TRUE

\* None => { warn!(..); return false; }
ResultWhenAbsent == FALSE

NoPacket == [len |-> 0, et |-> "Other", addr |-> [v |-> "V6", top |-> <<>>]]

FpIdle ==
    [pc |-> "idle", pkt |-> NoPacket, db |-> "Asn",
     rs |-> 0, nc |-> 0, rsg |-> 0, ncg |-> 0,
     node |-> 0, i |-> 0, k |-> 0, slice |-> ZeroSlice, iters |-> 0,
     seen |-> [d \in DbKinds |-> "unset"],
     res |-> [d \in DbKinds |-> "unset"],
     absent |-> [d \in DbKinds |-> FALSE],
     t0 |-> 0, verdict |-> "none"]

\* should_block returned result for the database f.db: the || goes on to the
\* Country lookup after an Asn lookup that was false, and otherwise the
\* filter returns its verdict through geofw.
EndLookup(f, result) ==
    Strict([f.res EXCEPT ![f.db] = IF result THEN "block" ELSE "pass"], LAMBDA res :
      IF f.db = "Asn" /\ ~result
      THEN [f EXCEPT !.res = res, !.db = "Country", !.pc = "get_rs"]
      ELSE [f EXCEPT !.res = res, !.pc = "done",
                     !.verdict =
                        geofw([ok |-> TRUE,
                               v |-> IF Combine(res["Asn"] = "block",
                                                res["Country"] = "block")
                                     THEN "XDP_DROP" ELSE "XDP_PASS"])])

\* node = node_from_bytes(slice, bit, record_size as u16); i += 1
Decoded(f) ==
    [f EXCEPT !.node = ebpf_node_from_bytes(f.slice, DescentBit(f.pkt.addr, f.i), f.rs),
              !.i = f.i + 1,
              !.pc = "loop"]

\* The program is attached while the control plane process lives.
Attached == cp.pc \notin {"exited", "panicked"}

\* The total of the bytes written into the images behind the control plane.
TearsSoFar == hist.tears["Asn"] + hist.tears["Country"]

\* A packet arrives: geofw runs try_geofw up to the first shared-map access.
Arrive(pkt) ==
    /\ fp.pc = "idle"
    /\ Attached
    /\ fp' = Strict(try_geofw(pkt), LAMBDA r :
                IF r.ok /\ r.v = "lookup"
                THEN [FpIdle EXCEPT !.pkt = pkt, !.t0 = TearsSoFar,
                                    !.pc = "get_rs", !.db = "Asn"]
                ELSE [FpIdle EXCEPT !.pkt = pkt, !.t0 = TearsSoFar,
                                    !.pc = "done", !.verdict = geofw(r)])
    /\ UNCHANGED <<dbs, image, params, cp, hist>>

\* PARAMETERS.get(&(..RecordSize as u8))
GetRecordSize ==
    /\ fp.pc = "get_rs"
    /\ fp' = Strict(params[RecordSizeKey(fp.db)], LAMBDA p :
                IF p = NoEntry
                THEN EndLookup([fp EXCEPT !.seen[fp.db] = "missing"], ResultWhenMissing)
                ELSE [fp EXCEPT !.rs = p,
                                !.rsg = hist.pgen[RecordSizeKey(fp.db)],
                                !.pc = "get_nc"])
    /\ UNCHANGED <<dbs, image, params, cp, hist>>

\* PARAMETERS.get(&(..NodeCount as u8)); node = 0; i = 0
GetNodeCount ==
    /\ fp.pc = "get_nc"
    /\ fp' = Strict(params[NodeCountKey(fp.db)], LAMBDA p :
                IF p = NoEntry
                THEN EndLookup([fp EXCEPT !.seen[fp.db] = "missing"], ResultWhenMissing)
                ELSE [fp EXCEPT !.nc = p,
                                !.ncg = hist.pgen[NodeCountKey(fp.db)],
                                !.seen[fp.db] = "present",
                                !.node = 0, !.i = 0, !.iters = 0,
                                !.pc = "loop"])
    /\ UNCHANGED <<dbs, image, params, cp, hist>>

\* The head of the while loop: another iteration, or node == BLOCK_MARKER.
LoopTest ==
    /\ fp.pc = "loop"
    /\ fp' = IF LoopContinues(fp.i, fp.node, fp.nc)
             THEN IF BytesPerNode(fp.rs) = 0
                  THEN Decoded([fp EXCEPT !.slice = ZeroSlice, !.iters = fp.iters + 1])
                  ELSE [fp EXCEPT !.slice = ZeroSlice, !.k = 0,
                                  !.iters = fp.iters + 1, !.pc = "read"]
             ELSE EndLookup(fp, fp.node = BLOCK_MARKER)
    /\ UNCHANGED <<dbs, image, params, cp, hist>>

\* map.get(node * node_size + k): one byte of the node, or return false.
ReadByte ==
    /\ fp.pc = "read"
    /\ fp' = Strict(ArrayGet(image[fp.db], fp.node * NodeSize(fp.rs) + fp.k), LAMBDA g :
                IF ~g.some
                THEN EndLookup([fp EXCEPT !.absent[fp.db] = TRUE], ResultWhenAbsent)
                ELSE IF fp.k + 1 >= BytesPerNode(fp.rs)
                THEN Decoded([fp EXCEPT !.slice[fp.k + 1] = g.v, !.k = fp.k + 1])
                ELSE [fp EXCEPT !.slice[fp.k + 1] = g.v, !.k = fp.k + 1])
    /\ UNCHANGED <<dbs, image, params, cp, hist>>

\* The verdict goes to the network stack.
Return ==
    /\ fp.pc = "done"
    /\ fp' = FpIdle
    /\ UNCHANGED <<dbs, image, params, cp, hist>>

(***************************************************************************)
(* The control plane (geofw/src/main.rs): the select loop of main and      *)
(* update_geoip_map, one step per write into a shared map.                 *)
(***************************************************************************)
\* max_entries of BLOCKED_ASN and of BLOCKED_COUNTRY, scaled down.
AsnMaxEntries == 22

CountryMaxEntries == 30

\* Ticks of the refresh interval in one run.
MaxTicks == 2

MaxEntries(db_type) == IF db_type = "Country" THEN CountryMaxEntries ELSE AsnMaxEntries

\* The configuration the process was started with.
Config0 == [source_countries |-> {CodeRU}, source_asn |-> {12345}]

\* The database files a download may leave on disk.
CountryGood1 == MakeFile(<< <<RecordPointer(1, 0), 1>> >>, 24, "Country")

CountryGood2 ==
    MakeFile(<< <<1, RecordPointer(2, Len(CountryRecord(CodeRU)))>>,
                <<RecordPointer(2, 0), 2>> >>, 28, "Country")

\* A database whose tree is larger than the Country map.
CountryBig ==
    MakeFile(<< <<1, 2>>, <<RecordPointer(3, 0), 3>>, <<3, RecordPointer(3, 0)>> >>,
             24, "Country")

\* A download cut short: the file ends inside the metadata map.
CountryTruncated == SubSeq(CountryGood1, 1, Len(CountryGood1) - 1)

AsnGood == MakeFile(<< <<RecordPointer(1, 0), 1>> >>, 24, "Asn")

\* A file without the metadata marker.
AsnNoMarker == SubSeq(AsnGood, 1, 30)

MalformedFiles == {CountryTruncated, AsnNoMarker}

Files(db_type) ==
    IF db_type = "Country"
    THEN {CountryGood1, CountryGood2, CountryBig, CountryTruncated}
    ELSE {AsnGood, AsnNoMarker}

CpIdle == [pc |-> "idle", db_type |-> "Country", result |-> Panic, i |-> 0, ticks |-> 0]

\* The two parameter entries of a database kind.
ParamPair(table, db_type) == <<table[NodeCountKey(db_type)], table[RecordSizeKey(db_type)]>>

HistIdle ==
    [on |-> TRUE,
     snapI |-> [d \in DbKinds |-> <<>>],
     snapP |-> [d \in DbKinds |-> <<NoEntry, NoEntry>>],
     gen |-> [d \in DbKinds |-> 0],
     written |-> [d \in DbKinds |-> 0],
     target |-> [d \in DbKinds |-> <<>>],
     pgen |-> [k \in ParamKeys |-> 0],
     done |-> [d \in DbKinds |-> 0],
     err |-> [d \in DbKinds |-> "none"],
     malformed |-> [d \in DbKinds |-> FALSE],
     alt |-> [d \in DbKinds |-> <<>>],
     tears |-> [d \in DbKinds |-> 0]]

\* update_geoip_map returned: main goes on to the Asn update, or to select.
AfterUpdate(c) ==
    IF c.db_type = "Country"
    THEN [c EXCEPT !.pc = "fetch", !.db_type = "Asn", !.result = Panic, !.i = 0]
    ELSE [c EXCEPT !.pc = "idle", !.result = Panic, !.i = 0]

\* What the maps hold when update_geoip_map is entered.
Snapshot(h, db_type) ==
    [h EXCEPT !.snapI[db_type] = image[db_type],
              !.snapP[db_type] = ParamPair(params, db_type),
              !.err[db_type] = "none"]

\* The image loop left one byte early.
ImageWrittenEarly(i, db) == i >= Len(db) - 1

\* for (i, v) in result.db.into_iter().enumerate() has run to its end.
ImageWritten(i, db) == i >= Len(db)

Init ==
    /\ dbs = DbIdle
    /\ image = [d \in DbKinds |-> Zeros(MaxEntries(d))]
    /\ params = [k \in ParamKeys |-> NoEntry]
    /\ cp = CpIdle
    /\ fp = FpIdle
    /\ hist = HistIdle

\* interval.tick() wins the select: the Country update starts.
Tick ==
    /\ cp.pc = "idle"
    /\ cp.ticks < MaxTicks
    /\ cp' = [cp EXCEPT !.pc = "fetch", !.db_type = "Country", !.ticks = cp.ticks + 1]
    /\ UNCHANGED <<dbs, image, params, fp, hist>>

\* signal::ctrl_c() wins the select: main returns.
CtrlC ==
    /\ cp.pc = "idle"
    /\ cp' = [cp EXCEPT !.pc = "exited"]
    /\ UNCHANGED <<dbs, image, params, fp, hist>>

\* fetch_geoip_db returns Err (no file to open, a broken archive):
\* update_geoip_map returns it through ? and main warns.
FetchErr ==
    /\ cp.pc = "fetch"
    /\ hist' = [Snapshot(hist, cp.db_type) EXCEPT !.err[cp.db_type] = "FetchError"]
    /\ cp' = AfterUpdate(cp)
    /\ UNCHANGED <<dbs, image, params, fp>>

\* fetch_geoip_db on the file now on disk: from_file and consume.  A panic
\* of the reader unwinds out of main.
Fetch(file) ==
    /\ cp.pc = "fetch"
    /\ \E r \in {Compacted(file, cp.db_type, Config0)} :
         /\ cp' = IF r.ok THEN [cp EXCEPT !.pc = "write", !.result = r, !.i = 0]
                          ELSE [cp EXCEPT !.pc = "panicked"]
         /\ hist' = IF r.ok
                    THEN [Snapshot(hist, cp.db_type) EXCEPT
                            !.malformed[cp.db_type] = (file \in MalformedFiles),
                            !.gen[cp.db_type] = hist.gen[cp.db_type] + 1,
                            !.written[cp.db_type] = 0,
                            !.target[cp.db_type] = r.db]
                    ELSE [Snapshot(hist, cp.db_type) EXCEPT
                            !.malformed[cp.db_type] = (file \in MalformedFiles)]
    /\ UNCHANGED <<dbs, image, params, fp>>

\* map.set(i, v, 0).map_err(..)?: one byte of the image, or the error of a
\* write past max_entries, which ends update_geoip_map.
WriteByte ==
    /\ cp.pc = "write"
    /\ ~ImageWritten(cp.i, cp.result.db)
    /\ IF cp.i >= Len(image[cp.db_type])
       THEN /\ cp' = AfterUpdate(cp)
            /\ hist' = [hist EXCEPT !.err[cp.db_type] = "MapWriteError"]
            /\ UNCHANGED image
       ELSE /\ image' = [image EXCEPT ![cp.db_type][cp.i + 1] = cp.result.db[cp.i + 1]]
            /\ cp' = [cp EXCEPT !.i = cp.i + 1]
            /\ hist' = [hist EXCEPT !.written[cp.db_type] = hist.written[cp.db_type] + 1]
    /\ UNCHANGED <<dbs, params, fp>>

\* map.insert(..NodeCount as u8, result.node_count, 0)
InsertNodeCount ==
    /\ cp.pc = "write"
    /\ ImageWritten(cp.i, cp.result.db)
    /\ params' = [params EXCEPT ![NodeCountKey(cp.db_type)] = cp.result.node_count]
    /\ cp' = [cp EXCEPT !.pc = "rs"]
    /\ hist' = [hist EXCEPT !.pgen[NodeCountKey(cp.db_type)] = hist.gen[cp.db_type]]
    /\ UNCHANGED <<dbs, image, fp>>

\* map.insert(..RecordSize as u8, result.record_size as u32, 0); Ok(())
InsertRecordSize ==
    /\ cp.pc = "rs"
    /\ params' = [params EXCEPT ![RecordSizeKey(cp.db_type)] = cp.result.record_size]
    /\ cp' = AfterUpdate(cp)
    /\ hist' = [hist EXCEPT !.pgen[RecordSizeKey(cp.db_type)] = hist.gen[cp.db_type],
                            !.done[cp.db_type] = hist.done[cp.db_type] + 1]
    /\ UNCHANGED <<dbs, image, fp>>

\* Packets: too short for the Ethernet header, too short for the IP header,
\* another ether_type, and IPv4 and IPv6 packets with their headers in bounds.
PacketAddrs ==
    {[v |-> "V6", top |-> <<0>>], [v |-> "V6", top |-> <<1>>], [v |-> "V4", top |-> <<1>>]}

EtherTypeOf(addr) == IF addr.v = "V4" THEN "Ipv4" ELSE "Ipv6"

FullPackets ==
    {[len |-> EthHdrLen + IpHdrLen(EtherTypeOf(a)), et |-> EtherTypeOf(a), addr |-> a] :
        a \in PacketAddrs}

ShortPackets ==
    {[NoPacket EXCEPT !.len = EthHdrLen - 1]}
        \cup {[len |-> EthHdrLen + IpHdrLen(EtherTypeOf(a)) - 1,
               et |-> EtherTypeOf(a), addr |-> a] :
                 a \in {[v |-> "V6", top |-> <<0>>], [v |-> "V4", top |-> <<1>>]}}

OtherPackets == {[NoPacket EXCEPT !.len = EthHdrLen + Ipv4HdrLen]}

Packets == FullPackets \cup ShortPackets \cup OtherPackets

Next ==
    \/ Tick
    \/ CtrlC
    \/ FetchErr
    \/ \E file \in Files(cp.db_type) : Fetch(file)
    \/ WriteByte
    \/ InsertNodeCount
    \/ InsertRecordSize
    \/ \E pkt \in Packets : Arrive(pkt)
    \/ GetRecordSize
    \/ GetNodeCount
    \/ LoopTest
    \/ ReadByte
    \/ Return

Spec == Init /\ [][Next]_vars

(***************************************************************************)
(* SpecFast: the XDP program over maps of any content.  The maps start     *)
(* with an image and a parameter pair per database that need not fit each  *)
(* other, and a writer replaces image bytes while packets are filtered.    *)
(***************************************************************************)
\* Bytes a writer replaces behind the program in one run.
MaxTears == 3

\* What a map of one database may hold: [img, rs, nc].
CountryMaps ==
    {[img |-> Zeros(6), rs |-> 24, nc |-> 1],
     [img |-> Zeros(6), rs |-> NoEntry, nc |-> NoEntry],
     [img |-> Zeros(6), rs |-> 0, nc |-> 1],
     [img |-> EncodeNode(BLOCK_MARKER, 1, 24), rs |-> 24, nc |-> 1],
     [img |-> EncodeNode(BLOCK_MARKER, 1, 24), rs |-> 24, nc |-> NoEntry],
     [img |-> EncodeNode(1, 1, 24), rs |-> 24, nc |-> 2],
     [img |-> EncodeNode(BLOCK_MARKER, 1, 24), rs |-> 24, nc |-> BLOCK_MARKER + 1],
     [img |-> Zeros(8), rs |-> 32, nc |-> 1],
     [img |-> EncodeTree(<< <<1, BLOCK_MARKER>>, <<2, BLOCK_MARKER>> >>, 28),
      rs |-> 28, nc |-> 2]}

AsnMaps ==
    {[img |-> Zeros(6), rs |-> NoEntry, nc |-> NoEntry],
     [img |-> EncodeNode(1, BLOCK_MARKER, 24), rs |-> 24, nc |-> 1]}

\* The bytes the writer puts in place of an image's first bytes.
TornBytes == EncodeNode(BLOCK_MARKER, 0, 24)

InitFast ==
    /\ dbs = DbIdle
    /\ \E c \in CountryMaps, a \in AsnMaps :
         /\ image = [d \in DbKinds |-> IF d = "Country" THEN c.img ELSE a.img]
         /\ params = [k \in ParamKeys |->
                        CASE k = CountryNodeCount -> c.nc
                          [] k = CountryRecordSize -> c.rs
                          [] k = AsnNodeCount -> a.nc
                          [] k = AsnRecordSize -> a.rs]
    /\ cp = CpIdle
    /\ fp = FpIdle
    /\ hist = [HistIdle EXCEPT !.alt = [d \in DbKinds |-> TornBytes]]

\* A writer of the map (a refresh in progress) replaces the next byte.
Tear(db_type) ==
    /\ TearsSoFar < MaxTears
    /\ hist.tears[db_type] < Len(hist.alt[db_type])
    /\ hist.tears[db_type] < Len(image[db_type])
    /\ image' = [image EXCEPT ![db_type][hist.tears[db_type] + 1] =
                                hist.alt[db_type][hist.tears[db_type] + 1]]
    /\ hist' = [hist EXCEPT !.tears[db_type] = hist.tears[db_type] + 1]
    /\ UNCHANGED <<dbs, params, cp, fp>>

NextFast ==
    \/ \E pkt \in Packets : Arrive(pkt)
    \/ GetRecordSize
    \/ GetNodeCount
    \/ LoopTest
    \/ ReadByte
    \/ Return
    \/ \E db_type \in DbKinds : Tear(db_type)

SpecFast == InitFast /\ [][NextFast]_vars

(***************************************************************************)
(* Properties of the refresh and of the program that runs beside it.       *)
(***************************************************************************)
\* Every byte of the image the latest refresh of d fetched is in the map.
ImageComplete(d) ==
    /\ hist.written[d] = Len(hist.target[d])
    /\ SubSeq(image[d], 1, Len(hist.target[d])) = hist.target[d]

\* g numbers the latest refresh of d that fetched an image.
Fresh(d, g) == g > 0 /\ g = hist.gen[d]

\* C3: in every refresh of a database kind the node_count and record_size
\* entries are written only after every byte of that kind's new image has
\* been written, so in every interleaving a reader that observed a fresh
\* parameter entry descends through an image that is completely written.
C3_ParamsAfterImage ==
    \A d \in DbKinds :
        /\ Fresh(d, hist.pgen[NodeCountKey(d)]) => ImageComplete(d)
        /\ Fresh(d, hist.pgen[RecordSizeKey(d)]) => ImageComplete(d)
        /\ (fp.pc \in {"loop", "read"} /\ fp.db = d
                /\ (Fresh(d, fp.rsg) \/ Fresh(d, fp.ncg)))
              => ImageComplete(d)

\* C3 witness: during the second Country refresh's lifetime a reader holds
\* both fresh entries and reads a byte of the image.
C3_Witness ==
    /\ fp.pc = "read"
    /\ fp.db = "Country"
    /\ hist.gen["Country"] = 2
    /\ Fresh("Country", fp.rsg)
    /\ Fresh("Country", fp.ncg)
    /\ hist.snapI["Country"] # image["Country"]

\* C7: while no refresh has completed the program passes every address: a
\* lookup that finds record_size or node_count missing returns not-block,
\* whatever the image holds at that moment.
C7_MissingParamsPass ==
    /\ \A d \in DbKinds : fp.seen[d] = "missing" => fp.res[d] # "block"
    /\ (hist.done["Asn"] + hist.done["Country"] = 0) => fp.verdict # "XDP_DROP"

\* C7 witness: a packet passed with both lookups finding their entries
\* missing while the first Country image, marker included, is being written.
C7_Witness ==
    /\ fp.pc = "done"
    /\ fp.pkt \in FullPackets
    /\ fp.seen["Asn"] = "missing"
    /\ fp.seen["Country"] = "missing"
    /\ fp.verdict = "XDP_PASS"
    /\ hist.done["Asn"] + hist.done["Country"] = 0
    /\ cp.pc = "write"
    /\ image["Country"][1] = 255

\* C8: when the database file of a refresh is truncated or otherwise
\* malformed, the control plane gets a MalformedDb error value, the image
\* and the parameter entries keep the values they had before the refresh,
\* and the control plane keeps running.
C8_MalformedReported ==
    \A d \in DbKinds :
        hist.malformed[d] =>
            /\ cp.pc # "panicked"
            /\ hist.err[d] = "MalformedDb"
            /\ image[d] = hist.snapI[d]
            /\ ParamPair(params, d) = hist.snapP[d]

\* C9: when a write of an image byte fails part-way through a refresh, the
\* previous image stays in place: every image byte and every parameter
\* entry equals its value from before that refresh started.
C9_WriteFailureKeepsImage ==
    \A d \in DbKinds :
        hist.err[d] = "MapWriteError" =>
            /\ image[d] = hist.snapI[d]
            /\ ParamPair(params, d) = hist.snapP[d]

(***************************************************************************)
(* Properties of the program over maps of any content.                     *)
(***************************************************************************)
\* C4: for every address, every image content (cyclic or torn by a writer)
\* and every stored record_size and node_count, the descent loop runs at
\* most 128 iterations, reads no node after them, and returns a decision.
C4_BoundedDescent ==
    /\ fp.iters <= MaxDescent
    /\ fp.i <= MaxDescent
    /\ fp.pc = "read" => fp.i < MaxDescent

\* C4 witness: a Country lookup returned after exactly 128 iterations.
C4_Witness ==
    /\ fp.pc = "done"
    /\ fp.iters = MaxDescent
    /\ fp.i = MaxDescent
    /\ fp.res["Country"] # "unset"

\* The packet ends before its Ethernet header or before its IP header.
TooShort(pkt) ==
    \/ pkt.len < EthHdrLen
    \/ pkt.et \in {"Ipv4", "Ipv6"} /\ pkt.len < EthHdrLen + IpHdrLen(pkt.et)

\* The packet is IPv4 or IPv6 and holds both headers.
InBoundsIp(pkt) == pkt.et \in {"Ipv4", "Ipv6"} /\ pkt.len >= EthHdrLen + IpHdrLen(pkt.et)

\* C5: a packet too short to hold the 14-byte Ethernet header, or the
\* IPv4/IPv6 header that follows it, gets the verdict PASS.
C5_ShortPacketPasses ==
    (fp.pc = "done" /\ TooShort(fp.pkt)) => fp.verdict = "XDP_PASS"

\* C6: for every IPv4 or IPv6 packet whose headers are in bounds the verdict
\* is DROP exactly when the ASN lookup or the Country lookup of the source
\* address returns block, and PASS otherwise; on maps no writer touched
\* while the packet was filtered the lookups are should_block of the maps as
\* they stand; a packet of any other ether_type gets PASS.
C6_Verdict ==
    fp.pc = "done" =>
        /\ InBoundsIp(fp.pkt) =>
             /\ fp.verdict = IF fp.res["Asn"] = "block" \/ fp.res["Country"] = "block"
                             THEN "XDP_DROP" ELSE "XDP_PASS"
             /\ fp.res["Asn"] # "unset"
             /\ fp.t0 = TearsSoFar =>
                  ((fp.verdict = "XDP_DROP") <=>
                      (\/ should_block(params, "Asn", image["Asn"], fp.pkt.addr)
                       \/ should_block(params, "Country", image["Country"], fp.pkt.addr)))
        /\ (fp.pkt.et = "Other" /\ fp.pkt.len >= EthHdrLen) => fp.verdict = "XDP_PASS"

\* C6 witness: a packet dropped on the Country lookup after the ASN lookup
\* returned not-block.
C6_Witness ==
    /\ fp.pc = "done"
    /\ InBoundsIp(fp.pkt)
    /\ fp.res["Asn"] = "pass"
    /\ fp.res["Country"] = "block"
    /\ fp.verdict = "XDP_DROP"

\* The image indices the for loop has read for the node in hand.
IndicesRead == {fp.node * NodeSize(fp.rs) + j : j \in 0..(fp.k - 1)}

\* C15: if during the descent a byte position of the image is absent (its
\* index lies outside the shared region), the lookup for that database kind
\* stops and returns not-block; no byte is read without this check: every
\* byte the slice holds came from an index inside the region.
C15_AbsentByteNotBlock ==
    /\ \A d \in DbKinds : fp.absent[d] => (fp.res[d] = "pass" /\ (fp.db = d => fp.pc = "done"))
    /\ fp.pc = "read" => \A x \in IndicesRead : x < Len(image[fp.db])

\* C15 witness: a Country lookup met an absent byte after reading the
\* bytes of an earlier node, and the packet passed.
C15_Witness ==
    /\ fp.pc = "done"
    /\ InBoundsIp(fp.pkt)
    /\ fp.absent["Country"]
    /\ fp.iters > 1
    /\ fp.verdict = "XDP_PASS"

\* C16: a lookup that runs beside a refresh of the same database kind never
\* descends with a (record_size, node_count) pair of which one value was
\* written by the previous refresh and the other by the current one.
C16_NoMixedPair ==
    fp.pc \in {"loop", "read"} => fp.rsg = fp.ncg

=============================================================================
